---- MODULE Spec2Model ----
(***************************************************************************)
(* Presence and message-routing core of ChatApp.                           *)
(*                                                                         *)
(* The repository ships two entry points, each a Flask-SocketIO server     *)
(* with its own module-level registry:                                     *)
(*   app.py         registry with a room per entry, join_room, private     *)
(*                  messages and their history in a durable table;         *)
(*   app_simple.py  registry without rooms, room messages broadcast to     *)
(*                  'general', an in-memory list of recent messages.       *)
(* The variable app says which entry point is running; it never changes.   *)
(* Spec runs either of them; SpecBoth registers the room handlers of the   *)
(* two files on one server (app = "both").                                 *)
(*                                                                         *)
(* Transport layer (Flask-SocketIO): every connection has a fresh sid, is  *)
(* a member of its own private room (named by the sid) and of the rooms    *)
(* it joined; emit(..., room=r) delivers to the members of r, emit(...)    *)
(* with no room delivers to the transport whose event is being handled.    *)
(* The session a socket handler sees is the copy of the HTTP session taken *)
(* when the socket connected: sess[sid] is fixed for the life of sid.      *)
(***************************************************************************)
EXTENDS Naturals, Sequences, FiniteSets, TLC

VARIABLES
    app,               \* entry point that is running: "app", "app_simple" or "both"
    online_users,      \* the registry: a dict, kept in insertion order
    sess,              \* sid -> user_id of the socket's session, NoUser if none
    conn,              \* sid -> "unused" | "open" | "closed"
    rooms,             \* sid -> set of named rooms the transport is a member of
    private_messages,  \* rows of the table private_messages, in insertion order
    boot_rows,         \* rows the durable table held when the process started
    db_up,             \* whether get_db_connection()/execute succeed
    chat_messages,     \* app_simple.py: list of recent room messages
    superseded,        \* sids whose registry entry was replaced by a later connect
    sent_offline,      \* timestamps of the rows sent while their recipient was offline
    emitted,           \* deliveries made by the last handler, in order
    last,              \* the last event handled: [op, sid, data]
    run                \* handlers in progress (threading mode): see NoRun

vars == <<app, online_users, sess, conn, rooms, private_messages, boot_rows,
          db_up, chat_messages, superseded, sent_offline, emitted, last, run>>

----------------------------------------------------------------------------
(* Bounds of the model *)

MaxUsers == 2

MaxSid == 2

MaxStore == 2

MaxChat == 2

(* Program constants *)

HistoryLimit == 50

RingCapacity == 100

RecentLimit == 50

----------------------------------------------------------------------------
(* Identities, inputs *)

UserNames == <<"alice", "bob", "carol", "dave">>

NoUser == 0

Users == 1..MaxUsers

Sids == 1..MaxSid

Username(u) == UserNames[u]

Whitespace == {" "}

RawBodies == { <<>>, <<" ">>, <<" ", "h", "i", " ">> }

Recipients == {Username(u) : u \in Users} \cup {""}

RoomInputs == {"general", "sports"}

(* a key the client's dict does not hold *)
NoData == [absent |-> TRUE]

(* Python's None *)
None == [none |-> TRUE]

NoSid == 0

EmotionInputs == {NoData, [emotion |-> "happy"]}

UserIdStrings == <<"1", "2", "3", "4">>

(* str(session['user_id']): the registry key of app.py *)
ToStr(u) == UserIdStrings[u]

SimpleIds == <<"#alice", "#bob", "#carol", "#dave">>

(* str(hash(username)): the user_id app_simple.py puts in the session *)
HashId(u) == SimpleIds[u]

(* data of a send_private_message event: the dict the client sent *)
PrivateInputs ==
    { [message |-> m, recipient |-> r, type |-> "text", emotion_data |-> NoData] :
          m \in RawBodies, r \in Recipients }

(* the same with an emotion result attached by the classifier *)
EmotionPrivateInputs ==
    { [message |-> m, recipient |-> r, type |-> "emotion", emotion_data |-> e] :
          m \in RawBodies \ {<<" ">>}, r \in Recipients \ {""}, e \in EmotionInputs }

MessageInputs == { [message |-> m, type |-> "text"] : m \in RawBodies }

----------------------------------------------------------------------------
(* str.strip() *)

RECURSIVE lstrip(_)
lstrip(s) == IF s # <<>> /\ Head(s) \in Whitespace THEN lstrip(Tail(s)) ELSE s

RECURSIVE rstrip(_)
rstrip(s) ==
    IF s # <<>> /\ s[Len(s)] \in Whitespace THEN rstrip(SubSeq(s, 1, Len(s) - 1)) ELSE s

strip(s) == rstrip(lstrip(s))

(* json.dumps: the serialised form of a value, distinct from the value *)
json_dumps(v) == [json |-> v]

----------------------------------------------------------------------------
(* The registry is a Python dict: keys are unique, iteration is in         *)
(* insertion order, assigning an existing key keeps its place.             *)

Keys(d) == { d[i].user_id : i \in DOMAIN d }

HasKey(d, k) == k \in Keys(d)

Get(d, k) == d[CHOOSE i \in DOMAIN d : d[i].user_id = k]

(* mutant: an existing key keeps its old value (the stale entry is resumed) *)
DictSetKeep(d, k, v) == IF HasKey(d, k) THEN d ELSE Append(d, v)

(* mutant: assignment always adds an item *)
DictSetAppend(d, k, v) == Append(d, v)

DictSet(d, k, v) ==
    IF HasKey(d, k)
    THEN [i \in DOMAIN d |-> IF d[i].user_id = k THEN v ELSE d[i]]
    ELSE Append(d, v)

(* mutant: the entry is not deleted *)
DictDelKeep(d, k) == d

DictDel(d, k) == SelectSeq(d, LAMBDA e : e.user_id # k)

----------------------------------------------------------------------------
(* Transport layer *)

Open == { s \in Sids : conn[s] = "open" }

RECURSIVE SetToSeq(_)
SetToSeq(S) ==
    IF S = {} THEN <<>>
    ELSE LET m == CHOOSE x \in S : \A y \in S : x <= y
         IN  <<m>> \o SetToSeq(S \ {m})

(* members of a named room, given the connections cn and memberships rm *)
Participants(cn, rm, room) == { s \in Sids : cn[s] = "open" /\ room \in rm[s] }

(* one delivery of event to every transport of targets *)
Emit(event, data, targets) ==
    LET order == SetToSeq(targets)
    IN  [i \in DOMAIN order |-> [to |-> order[i], event |-> event, data |-> data]]

(* emit(event, data): to the transport whose event is being handled *)
EmitSelf(sid, event, data) == Emit(event, data, {sid})

(* emit(event, data, room=room) *)
EmitRoom(cn, rm, event, data, room) == Emit(event, data, Participants(cn, rm, room))

(* emit(event, data, room=socket_id): the private room of one transport *)
EmitSid(event, data, socket_id) == Emit(event, data, {socket_id} \cap Open)

(* the sid the transport layer gives the next connection *)
FreshSid(s) == conn[s] = "unused" /\ \A t \in Sids : t < s => conn[t] # "unused"

----------------------------------------------------------------------------
(* app.py: helpers *)

(* get_online_users_list(): one item per entry of the dict, in its order *)
get_online_users_list(d) ==
    [i \in DOMAIN d |-> [user_id |-> d[i].user_id, username |-> d[i].username]]

(* mutant: the lookup compares the username with the dict key *)
get_user_socket_by_key(d, username) ==
    LET hits == { i \in DOMAIN d : d[i].user_id = username }
    IN  IF hits = {} THEN NoSid
        ELSE d[CHOOSE i \in hits : \A j \in hits : i <= j].socket_id

(* mutant: the lookup returns the first registered socket, whatever the    *)
(* username                                                                *)
get_user_socket_first(d, username) ==
    IF d = <<>> THEN NoSid ELSE d[1].socket_id

(* get_user_socket(username): socket_id of the first entry with that username *)
get_user_socket(d, username) ==
    LET hits == { i \in DOMAIN d : d[i].username = username }
    IN  IF hits = {} THEN NoSid
        ELSE d[CHOOSE i \in hits : \A j \in hits : i <= j].socket_id

(* the extra_json column: json.dumps of the dict passed as extra_data *)
extra_json(message_type, extra_data) ==
    IF message_type \in {"emotion", "mood_filter"} THEN json_dumps(extra_data) ELSE None

(* save_private_message_to_db: the table after the call. datetime.now() of  *)
(* successive inserts increases: the timestamp is the insert's rank.        *)
save_private_message_to_db(table, up, user_id, username, recipient, message, message_type, extra_data) ==
    IF up
    THEN Append(table, [sender_id          |-> user_id,
                        sender_username    |-> username,
                        recipient_username |-> recipient,
                        message            |-> message,
                        message_type       |-> message_type,
                        extra_data         |-> extra_json(message_type, extra_data),
                        timestamp          |-> Len(table) + 1])
    ELSE table

(* mutant: the WHERE clause matches one direction only *)
InConversationOneWay(row, user1, user2) ==
    row.sender_username = user1 /\ row.recipient_username = user2

(* WHERE (sender = user1 AND recipient = user2) OR (sender = user2 AND ...) *)
InConversation(row, user1, user2) ==
    \/ row.sender_username = user1 /\ row.recipient_username = user2
    \/ row.sender_username = user2 /\ row.recipient_username = user1

(* ORDER BY timestamp ASC: rows of equal timestamp stay in table order *)
Ascending(rows) ==
    \A i \in 1..(Len(rows) - 1) : rows[i].timestamp <= rows[i + 1].timestamp

RankByTimestamp(rows, i) ==
    1 + Cardinality({ j \in DOMAIN rows :
                        \/ rows[j].timestamp < rows[i].timestamp
                        \/ rows[j].timestamp = rows[i].timestamp /\ j < i })

OrderByTimestamp(rows) ==
    IF Ascending(rows) THEN rows
    ELSE [k \in DOMAIN rows |->
             rows[CHOOSE i \in DOMAIN rows : RankByTimestamp(rows, i) = k]]

(* LIMIT ? *)
Limit(rows, limit) == SubSeq(rows, 1, IF Len(rows) < limit THEN Len(rows) ELSE limit)

FormatRow(msg) ==
    [sender     |-> msg.sender_username,
     recipient  |-> msg.recipient_username,
     message    |-> msg.message,
     type       |-> msg.message_type,
     timestamp  |-> msg.timestamp,
     extra_data |-> msg.extra_data]

(* get_chat_history_from_db(user1, user2, limit) *)
get_chat_history_from_db(table, up, user1, user2, limit) ==
    IF up
    THEN LET hits     == SelectSeq(table, LAMBDA row : InConversation(row, user1, user2))
             messages == Limit(OrderByTimestamp(hits), limit)
         IN  [i \in DOMAIN messages |-> FormatRow(messages[i])]
    ELSE <<>>

----------------------------------------------------------------------------
(* app.py: Socket.IO handlers and the logout route *)

(* a handler that runs from its first to its last statement in one step:   *)
(* it leaves no handler in progress                                        *)
Handled(op, sid, data) ==
    /\ last' = [op |-> op, sid |-> sid, data |-> data]
    /\ UNCHANGED run

(* mutant: join_room('general') runs before the session is tested *)
handle_connect_join_first(sid, u) ==
    /\ app \in {"app", "both"}
    /\ FreshSid(sid)
    /\ conn' = [conn EXCEPT ![sid] = "open"]
    /\ sess' = [sess EXCEPT ![sid] = u]
    /\ rooms' = [rooms EXCEPT ![sid] = @ \cup {"general"}]
    /\ IF u # NoUser
       THEN /\ online_users' = DictSet(online_users, ToStr(u),
                                       [user_id   |-> ToStr(u),
                                        username  |-> Username(u),
                                        room      |-> "general",
                                        socket_id |-> sid])
            /\ superseded' =
                   IF HasKey(online_users, ToStr(u))
                   THEN superseded \cup {Get(online_users, ToStr(u)).socket_id}
                   ELSE superseded
            /\ emitted' = EmitRoom(conn', rooms', "user_online",
                                   [user_id      |-> ToStr(u),
                                    username     |-> Username(u),
                                    online_users |-> get_online_users_list(online_users')],
                                   "general")
       ELSE /\ emitted' = <<>>
            /\ UNCHANGED <<online_users, superseded>>
    /\ Handled("connect", sid, [user |-> u])
    /\ UNCHANGED <<app, private_messages, boot_rows, db_up, chat_messages, sent_offline>>

(* @socketio.on('connect') *)
handle_connect(sid, u) ==
    /\ app \in {"app", "both"}
    /\ FreshSid(sid)
    /\ conn' = [conn EXCEPT ![sid] = "open"]
    /\ sess' = [sess EXCEPT ![sid] = u]
    /\ IF u # NoUser
       THEN /\ online_users' = DictSet(online_users, ToStr(u),
                                       [user_id   |-> ToStr(u),
                                        username  |-> Username(u),
                                        room      |-> "general",
                                        socket_id |-> sid])
            /\ rooms' = [rooms EXCEPT ![sid] = @ \cup {"general"}]
            /\ superseded' =
                   IF HasKey(online_users, ToStr(u))
                   THEN superseded \cup {Get(online_users, ToStr(u)).socket_id}
                   ELSE superseded
            /\ emitted' = EmitRoom(conn', rooms', "user_online",
                                   [user_id      |-> ToStr(u),
                                    username     |-> Username(u),
                                    online_users |-> get_online_users_list(online_users')],
                                   "general")
       ELSE /\ emitted' = <<>>
            /\ UNCHANGED <<online_users, rooms, superseded>>
    /\ Handled("connect", sid, [user |-> u])
    /\ UNCHANGED <<app, private_messages, boot_rows, db_up, chat_messages, sent_offline>>

(* @socketio.on('disconnect'); the transport layer then drops the sid from  *)
(* every room. The socket is gone: nothing reaches the closing transport.   *)
handle_disconnect(sid) ==
    /\ app \in {"app", "both"}
    /\ conn[sid] = "open"
    /\ conn' = [conn EXCEPT ![sid] = "closed"]
    /\ rooms' = [rooms EXCEPT ![sid] = {}]
    /\ superseded' = superseded \ {sid}
    /\ IF sess[sid] # NoUser
       THEN /\ online_users' = DictDel(online_users, ToStr(sess[sid]))
            /\ emitted' = EmitRoom(conn', rooms, "user_offline",
                                   [user_id      |-> ToStr(sess[sid]),
                                    username     |-> Username(sess[sid]),
                                    online_users |-> get_online_users_list(online_users')],
                                   "general")
       ELSE /\ emitted' = <<>>
            /\ UNCHANGED online_users
    /\ Handled("disconnect", sid, [user |-> sess[sid]])
    /\ UNCHANGED <<app, sess, private_messages, boot_rows, db_up, chat_messages,
                   sent_offline>>

(* @app.route('/logout'), requested by a browser logged in as u. The        *)
(* sockets of u stay connected and keep their copy of the session.          *)
(* update_user_online_status runs first and has no try: when the database  *)
(* is unavailable the request ends there, with the registry untouched.      *)
logout(u) ==
    /\ app \in {"app", "both"}
    /\ IF db_up
       THEN /\ online_users' = DictDel(online_users, ToStr(u))
            /\ emitted' = EmitRoom(conn, rooms, "user_offline",
                                   [user_id |-> ToStr(u), username |-> Username(u)],
                                   "general")
       ELSE /\ emitted' = <<>>
            /\ UNCHANGED online_users
    /\ Handled("logout", NoSid, [user |-> u])
    /\ UNCHANGED <<app, sess, conn, rooms, private_messages, boot_rows, db_up,
                   chat_messages, superseded, sent_offline>>

(* message_data of handle_private_message. The wall-clock 'timestamp'      *)
(* string is left out; no input is of type 'mood_filter'.                  *)
message_data(user_id, username, recipient, message, message_type, data) ==
    IF message_type = "emotion" /\ data.emotion_data # NoData
    THEN [sender     |-> username,
          recipient  |-> recipient,
          message    |-> message,
          type       |-> message_type,
          user_id    |-> ToStr(user_id),
          extra_data |-> json_dumps(data.emotion_data)]
    ELSE [sender     |-> username,
          recipient  |-> recipient,
          message    |-> message,
          type       |-> message_type,
          user_id    |-> ToStr(user_id)]

(* mutant: no self-message test before the second emit *)
SendToRecipientAlways(d, username, recipient, payload) ==
    LET recipient_socket == get_user_socket(d, recipient)
    IN  IF recipient_socket # NoSid
        THEN EmitSid("receive_private_message", payload, recipient_socket)
        ELSE <<>>

(* mutant: the recipient's socket is any registered socket *)
SendToRecipientAny(d, username, recipient, payload) ==
    IF recipient # username /\ d # <<>>
    THEN EmitSid("receive_private_message", payload, d[1].socket_id)
    ELSE <<>>

(* the second emit of handle_private_message: to the recipient if they are *)
(* online and it is not a self-message                                     *)
SendToRecipient(d, username, recipient, payload) ==
    IF recipient # username
    THEN LET recipient_socket == get_user_socket(d, recipient)
         IN  IF recipient_socket # NoSid
             THEN EmitSid("receive_private_message", payload, recipient_socket)
             ELSE <<>>
    ELSE <<>>

(* a user is offline: no registry entry and no connected socket of theirs *)
Offline(username) ==
    /\ \A i \in DOMAIN online_users : online_users[i].username # username
    /\ \A s \in Open : sess[s] = NoUser \/ Username(sess[s]) # username

(* mutant: the body is tested before it is stripped *)
PrivateAcceptedUnstripped(sid, data) ==
    /\ sess[sid] # NoUser
    /\ data.message # <<>>
    /\ data.recipient # ""

(* the guard of handle_private_message: session present, body and recipient *)
(* non-empty                                                                *)
PrivateAccepted(sid, data) ==
    /\ sess[sid] # NoUser
    /\ strip(data.message) # <<>>
    /\ data.recipient # ""

(* mutant: the exception of a failed save is not caught, the handler ends  *)
(* before its emits                                                        *)
handle_private_message_save_raises(sid, data) ==
    /\ app \in {"app", "both"}
    /\ conn[sid] = "open"
    /\ IF PrivateAccepted(sid, data)
       THEN LET message  == strip(data.message)
                username == Username(sess[sid])
                payload  == message_data(sess[sid], username, data.recipient,
                                         message, data.type, data)
            IN  /\ Len(private_messages) < boot_rows + MaxStore
                /\ private_messages' =
                       save_private_message_to_db(private_messages, db_up, sess[sid],
                                                  username, data.recipient, message,
                                                  data.type, data)
                /\ emitted' = IF db_up
                              THEN EmitSelf(sid, "receive_private_message", payload)
                                     \o SendToRecipient(online_users, username,
                                                        data.recipient, payload)
                              ELSE <<>>
                /\ sent_offline' =
                       IF Offline(data.recipient) /\ private_messages' # private_messages
                       THEN sent_offline \cup {Len(private_messages')}
                       ELSE sent_offline
       ELSE /\ emitted' = <<>>
            /\ UNCHANGED <<private_messages, sent_offline>>
    /\ Handled("send_private_message", sid, data)
    /\ UNCHANGED <<app, online_users, sess, conn, rooms, boot_rows, db_up,
                   chat_messages, superseded>>

(* mutant: an accepted send registers the calling transport as the         *)
(* sender's handle                                                         *)
handle_private_message_registers_sender(sid, data) ==
    /\ app \in {"app", "both"}
    /\ conn[sid] = "open"
    /\ IF PrivateAccepted(sid, data)
       THEN LET message  == strip(data.message)
                username == Username(sess[sid])
                payload  == message_data(sess[sid], username, data.recipient,
                                         message, data.type, data)
            IN  /\ Len(private_messages) < boot_rows + MaxStore
                /\ private_messages' =
                       save_private_message_to_db(private_messages, db_up, sess[sid],
                                                  username, data.recipient, message,
                                                  data.type, data)
                /\ emitted' = EmitSelf(sid, "receive_private_message", payload)
                                \o SendToRecipient(online_users, username,
                                                   data.recipient, payload)
                /\ sent_offline' =
                       IF Offline(data.recipient) /\ private_messages' # private_messages
                       THEN sent_offline \cup {Len(private_messages')}
                       ELSE sent_offline
                /\ online_users' = DictSet(online_users, ToStr(sess[sid]),
                                           [user_id   |-> ToStr(sess[sid]),
                                            username  |-> username,
                                            room      |-> "general",
                                            socket_id |-> sid])
       ELSE /\ emitted' = <<>>
            /\ UNCHANGED <<private_messages, sent_offline, online_users>>
    /\ Handled("send_private_message", sid, data)
    /\ UNCHANGED <<app, sess, conn, rooms, boot_rows, db_up, chat_messages, superseded>>

(* @socketio.on('send_private_message') *)
handle_private_message(sid, data) ==
    /\ app \in {"app", "both"}
    /\ conn[sid] = "open"
    /\ IF PrivateAccepted(sid, data)
       THEN LET message  == strip(data.message)
                username == Username(sess[sid])
                payload  == message_data(sess[sid], username, data.recipient,
                                         message, data.type, data)
            IN  /\ Len(private_messages) < boot_rows + MaxStore
                /\ private_messages' =
                       save_private_message_to_db(private_messages, db_up, sess[sid],
                                                  username, data.recipient, message,
                                                  data.type, data)
                /\ emitted' = EmitSelf(sid, "receive_private_message", payload)
                                \o SendToRecipient(online_users, username,
                                                   data.recipient, payload)
                /\ sent_offline' =
                       IF Offline(data.recipient) /\ private_messages' # private_messages
                       THEN sent_offline \cup {Len(private_messages')}
                       ELSE sent_offline
       ELSE /\ emitted' = <<>>
            /\ UNCHANGED <<private_messages, sent_offline>>
    /\ Handled("send_private_message", sid, data)
    /\ UNCHANGED <<app, online_users, sess, conn, rooms, boot_rows, db_up,
                   chat_messages, superseded>>

(* mutant: the exception of a failed read is not caught, the handler ends  *)
(* before its emit                                                         *)
handle_get_chat_history_read_raises(sid, data) ==
    /\ app \in {"app", "both"}
    /\ conn[sid] = "open"
    /\ IF sess[sid] # NoUser /\ data.recipient # "" /\ db_up
       THEN emitted' = EmitSelf(sid, "chat_history",
                                [messages |-> get_chat_history_from_db(
                                                  private_messages, db_up,
                                                  Username(sess[sid]), data.recipient,
                                                  HistoryLimit)])
       ELSE emitted' = <<>>
    /\ Handled("get_chat_history", sid, data)
    /\ UNCHANGED <<app, online_users, sess, conn, rooms, private_messages, boot_rows,
                   db_up, chat_messages, superseded, sent_offline>>

(* @socketio.on('get_chat_history') *)
handle_get_chat_history(sid, data) ==
    /\ app \in {"app", "both"}
    /\ conn[sid] = "open"
    /\ IF sess[sid] # NoUser /\ data.recipient # ""
       THEN emitted' = EmitSelf(sid, "chat_history",
                                [messages |-> get_chat_history_from_db(
                                                  private_messages, db_up,
                                                  Username(sess[sid]), data.recipient,
                                                  HistoryLimit)])
       ELSE emitted' = <<>>
    /\ Handled("get_chat_history", sid, data)
    /\ UNCHANGED <<app, online_users, sess, conn, rooms, private_messages, boot_rows,
                   db_up, chat_messages, superseded, sent_offline>>

(* mutant: the current room is left but the new room is not joined *)
SwitchRoomLeaveOnly(d, user_id, joined, room) ==
    IF HasKey(d, user_id) THEN joined \ {Get(d, user_id).room} ELSE joined

(* leave_room(current_room) when the user has an entry, then join_room(room) *)
SwitchRoom(d, user_id, joined, room) ==
    (IF HasKey(d, user_id) THEN joined \ {Get(d, user_id).room} ELSE joined)
        \cup {room}

(* mutant: join_room(room) runs before the session is tested *)
handle_join_room_join_first(sid, data) ==
    /\ app \in {"app", "both"}
    /\ conn[sid] = "open"
    /\ IF sess[sid] # NoUser
       THEN LET user_id == ToStr(sess[sid])
            IN  /\ rooms' = [rooms EXCEPT ![sid] =
                                 SwitchRoom(online_users, user_id, @, data.room)]
                /\ IF HasKey(online_users, user_id)
                   THEN /\ online_users' =
                               DictSet(online_users, user_id,
                                       [Get(online_users, user_id)
                                            EXCEPT !.room = data.room])
                        /\ emitted' = EmitRoom(conn, rooms', "room_joined",
                                               [room     |-> data.room,
                                                username |-> Username(sess[sid])],
                                               data.room)
                   ELSE /\ emitted' = <<>>
                        /\ UNCHANGED online_users
       ELSE /\ rooms' = [rooms EXCEPT ![sid] = @ \cup {data.room}]
            /\ emitted' = <<>>
            /\ UNCHANGED online_users
    /\ Handled("join_room", sid, data)
    /\ UNCHANGED <<app, sess, conn, private_messages, boot_rows, db_up,
                   chat_messages, superseded, sent_offline>>

(* mutant: a missing entry is created by the assignment of the room *)
handle_join_room_creates_entry(sid, data) ==
    /\ app \in {"app", "both"}
    /\ conn[sid] = "open"
    /\ IF sess[sid] # NoUser
       THEN LET user_id == ToStr(sess[sid])
            IN  /\ rooms' = [rooms EXCEPT ![sid] =
                                 SwitchRoom(online_users, user_id, @, data.room)]
                /\ online_users' =
                       DictSet(online_users, user_id,
                               IF HasKey(online_users, user_id)
                               THEN [Get(online_users, user_id) EXCEPT !.room = data.room]
                               ELSE [user_id   |-> user_id,
                                     username  |-> Username(sess[sid]),
                                     room      |-> data.room,
                                     socket_id |-> sid])
                /\ emitted' = EmitRoom(conn, rooms', "room_joined",
                                       [room     |-> data.room,
                                        username |-> Username(sess[sid])],
                                       data.room)
       ELSE /\ emitted' = <<>>
            /\ UNCHANGED <<online_users, rooms>>
    /\ Handled("join_room", sid, data)
    /\ UNCHANGED <<app, sess, conn, private_messages, boot_rows, db_up,
                   chat_messages, superseded, sent_offline>>

(* @socketio.on('join_room'). Without an entry, online_users[user_id] raises *)
(* KeyError after join_room(room) has run: the handler ends there.           *)
handle_join_room(sid, data) ==
    /\ app \in {"app", "both"}
    /\ conn[sid] = "open"
    /\ IF sess[sid] # NoUser
       THEN LET user_id == ToStr(sess[sid])
            IN  /\ rooms' = [rooms EXCEPT ![sid] =
                                 SwitchRoom(online_users, user_id, @, data.room)]
                /\ IF HasKey(online_users, user_id)
                   THEN /\ online_users' =
                               DictSet(online_users, user_id,
                                       [Get(online_users, user_id)
                                            EXCEPT !.room = data.room])
                        /\ emitted' = EmitRoom(conn, rooms', "room_joined",
                                               [room     |-> data.room,
                                                username |-> Username(sess[sid])],
                                               data.room)
                   ELSE /\ emitted' = <<>>
                        /\ UNCHANGED online_users
       ELSE /\ emitted' = <<>>
            /\ UNCHANGED <<online_users, rooms>>
    /\ Handled("join_room", sid, data)
    /\ UNCHANGED <<app, sess, conn, private_messages, boot_rows, db_up,
                   chat_messages, superseded, sent_offline>>

----------------------------------------------------------------------------
(* app_simple.py *)

(* the sender of the room messages accepted before the first event of a    *)
(* run that starts on a used ring; not one of Users                        *)
EarlierUser == "erin"

(* room messages accepted since the first event of the run *)
SentSinceStart(messages) ==
    Cardinality({ i \in DOMAIN messages : messages[i].username # EarlierUser })

(* mutant: pop() drops the newest message instead of the oldest *)
save_message_pop_newest(messages, username, message, message_type) ==
    LET appended == Append(messages, [username       |-> username,
                                      message        |-> message,
                                      message_type   |-> message_type,
                                      attachment_url |-> None])
    IN  IF Len(appended) > RingCapacity
        THEN SubSeq(appended, 1, Len(appended) - 1)
        ELSE appended

(* save_message: append, then drop the oldest beyond the capacity. The     *)
(* wall-clock 'timestamp' string of the item is left out.                  *)
save_message(messages, username, message, message_type) ==
    LET appended == Append(messages, [username       |-> username,
                                      message        |-> message,
                                      message_type   |-> message_type,
                                      attachment_url |-> None])
    IN  IF Len(appended) > RingCapacity THEN Tail(appended) ELSE appended

(* get_recent_messages(limit): chat_messages[-limit:] *)
get_recent_messages(messages, limit) ==
    IF Len(messages) > limit
    THEN SubSeq(messages, Len(messages) - limit + 1, Len(messages))
    ELSE messages

(* @socketio.on('connect'): returns False, refusing the connection, when    *)
(* the session holds no username                                            *)
on_connect(sid, u) ==
    /\ app = "app_simple"
    /\ FreshSid(sid)
    /\ sess' = [sess EXCEPT ![sid] = u]
    /\ IF u # NoUser
       THEN /\ conn' = [conn EXCEPT ![sid] = "open"]
            /\ online_users' = DictSet(online_users, HashId(u),
                                       [user_id   |-> HashId(u),
                                        username  |-> Username(u),
                                        socket_id |-> sid])
            /\ rooms' = [rooms EXCEPT ![sid] = @ \cup {"general"}]
            /\ superseded' =
                   IF HasKey(online_users, HashId(u))
                   THEN superseded \cup {Get(online_users, HashId(u)).socket_id}
                   ELSE superseded
            /\ emitted' =
                   Emit("user_online",
                        [user_id |-> HashId(u), username |-> Username(u)],
                        Participants(conn', rooms', "general") \ {sid})
                   \o EmitSelf(sid, "recent_messages",
                               get_recent_messages(chat_messages, RecentLimit))
                   \o EmitSelf(sid, "online_users_update",
                               get_online_users_list(online_users'))
       ELSE /\ conn' = [conn EXCEPT ![sid] = "closed"]
            /\ emitted' = <<>>
            /\ UNCHANGED <<online_users, rooms, superseded>>
    /\ Handled("connect", sid, [user |-> u])
    /\ UNCHANGED <<app, private_messages, boot_rows, db_up, chat_messages, sent_offline>>

(* @socketio.on('disconnect') *)
on_disconnect(sid) ==
    /\ app = "app_simple"
    /\ conn[sid] = "open"
    /\ conn' = [conn EXCEPT ![sid] = "closed"]
    /\ rooms' = [rooms EXCEPT ![sid] = {}]
    /\ superseded' = superseded \ {sid}
    /\ IF sess[sid] # NoUser
       THEN /\ online_users' = DictDel(online_users, HashId(sess[sid]))
            /\ emitted' = EmitRoom(conn', rooms, "user_offline",
                                   [user_id  |-> HashId(sess[sid]),
                                    username |-> Username(sess[sid])],
                                   "general")
       ELSE /\ emitted' = <<>>
            /\ UNCHANGED online_users
    /\ Handled("disconnect", sid, [user |-> sess[sid]])
    /\ UNCHANGED <<app, sess, private_messages, boot_rows, db_up, chat_messages,
                   sent_offline>>

(* mutant: the entry is deleted without the notification *)
simple_logout_silent(u) ==
    /\ app = "app_simple"
    /\ emitted' = <<>>
    /\ online_users' = DictDel(online_users, HashId(u))
    /\ Handled("logout", NoSid, [user |-> u])
    /\ UNCHANGED <<app, sess, conn, rooms, private_messages, boot_rows, db_up,
                   chat_messages, superseded, sent_offline>>

(* @app.route('/logout') of app_simple.py, requested by a browser logged in *)
(* as u: socketio.emit with no room reaches every connected transport       *)
simple_logout(u) ==
    /\ app = "app_simple"
    /\ IF HasKey(online_users, HashId(u))
       THEN /\ emitted' = Emit("user_offline",
                               [user_id |-> HashId(u), username |-> Username(u)],
                               Open)
            /\ online_users' = DictDel(online_users, HashId(u))
       ELSE /\ emitted' = <<>>
            /\ UNCHANGED online_users
    /\ Handled("logout", NoSid, [user |-> u])
    /\ UNCHANGED <<app, sess, conn, rooms, private_messages, boot_rows, db_up,
                   chat_messages, superseded, sent_offline>>

(* mutant: the broadcast skips the sender (include_self=False) *)
MessageTargetsSkipSelf(cn, rm, sid) == Participants(cn, rm, "general") \ {sid}

(* emit('new_message', message_data, room='general'): the sender is not   *)
(* skipped                                                                 *)
MessageTargets(cn, rm, sid) == Participants(cn, rm, "general")

(* @socketio.on('send_message') *)
handle_message(sid, data) ==
    /\ app \in {"app_simple", "both"}
    /\ conn[sid] = "open"
    /\ IF sess[sid] # NoUser /\ strip(data.message) # <<>>
       THEN LET username == Username(sess[sid])
                message  == strip(data.message)
            IN  /\ SentSinceStart(chat_messages) < MaxChat
                /\ chat_messages' =
                       save_message(chat_messages, username, message, data.type)
                /\ emitted' = Emit("new_message",
                                   [username |-> username,
                                    message  |-> message,
                                    type     |-> data.type],
                                   MessageTargets(conn, rooms, sid))
       ELSE /\ emitted' = <<>>
            /\ UNCHANGED chat_messages
    /\ Handled("send_message", sid, data)
    /\ UNCHANGED <<app, online_users, sess, conn, rooms, private_messages,
                   boot_rows, db_up, superseded, sent_offline>>

----------------------------------------------------------------------------
(* Specifications *)

NoEvent == [op |-> "start", sid |-> NoSid, data |-> [user |-> NoUser]]

(* a handler that is not running *)
Idle == [pc |-> "idle", pos |-> 0, used |-> 0, items |-> <<>>, instants |-> {},
         msg |-> None, saved |-> "no", after |-> <<>>]

(* no handler in progress. slots: the entries array of the dict            *)
(* online_users (keys in insertion order, a deleted key leaves a hole);    *)
(* handler: the position of the handler running for each sid; inbox: the   *)
(* new_message events each transport has received, in order                *)
NoRun == [slots   |-> <<>>,
          handler |-> [s \in Sids |-> Idle],
          inbox   |-> [s \in Sids |-> <<>>]]

InitCore ==
    /\ online_users = <<>>
    /\ sess = [s \in Sids |-> NoUser]
    /\ conn = [s \in Sids |-> "unused"]
    /\ rooms = [s \in Sids |-> {}]
    /\ db_up = TRUE
    /\ chat_messages = <<>>
    /\ superseded = {}
    /\ sent_offline = {}
    /\ emitted = <<>>
    /\ last = NoEvent
    /\ run = NoRun

Init ==
    /\ app \in {"app", "app_simple"}
    /\ private_messages = <<>>
    /\ boot_rows = 0
    /\ InitCore

NextApp ==
    \/ \E sid \in Sids, u \in Users \cup {NoUser} : handle_connect(sid, u)
    \/ \E sid \in Sids : handle_disconnect(sid)
    \/ \E u \in Users : logout(u)
    \/ \E sid \in Sids, data \in PrivateInputs : handle_private_message(sid, data)
    \/ \E sid \in Sids, r \in Recipients :
           handle_get_chat_history(sid, [recipient |-> r])
    \/ \E sid \in Sids, r \in RoomInputs : handle_join_room(sid, [room |-> r])

NextSimple ==
    \/ \E sid \in Sids, u \in Users \cup {NoUser} : on_connect(sid, u)
    \/ \E sid \in Sids : on_disconnect(sid)
    \/ \E u \in Users : simple_logout(u)
    \/ \E sid \in Sids, data \in MessageInputs : handle_message(sid, data)

Next == NextApp \/ NextSimple

Spec == Init /\ [][Next]_vars

(* app.py started on a durable table that already holds an earlier         *)
(* conversation: HistoryLimit messages alice sent to bob                    *)
EarlierRows ==
    [i \in 1..HistoryLimit |->
        [sender_id          |-> 1,
         sender_username    |-> Username(1),
         recipient_username |-> Username(2),
         message            |-> <<"h", "i">>,
         message_type       |-> "text",
         extra_data         |-> None,
         timestamp          |-> i]]

InitDurable ==
    /\ app = "app"
    /\ private_messages = EarlierRows
    /\ boot_rows = HistoryLimit
    /\ InitCore

SpecDurable == InitDurable /\ [][NextApp]_vars

(* The room handlers of the two entry points on one server: join_room is  *)
(* registered by app.py only, send_message by app_simple.py only.          *)
InitBoth ==
    /\ app = "both"
    /\ private_messages = <<>>
    /\ boot_rows = 0
    /\ InitCore

NextBoth ==
    \/ \E sid \in Sids, u \in Users \cup {NoUser} : handle_connect(sid, u)
    \/ \E sid \in Sids : handle_disconnect(sid)
    \/ \E u \in Users : logout(u)
    \/ \E sid \in Sids, r \in RoomInputs : handle_join_room(sid, [room |-> r])
    \/ \E sid \in Sids, data \in MessageInputs : handle_message(sid, data)

SpecBoth == InitBoth /\ [][NextBoth]_vars

----------------------------------------------------------------------------
(* Properties *)

Names == { Username(u) : u \in Users }

(* number of deliveries of event made to sid by the last handler *)
DeliveriesTo(sid, event) ==
    Len(SelectSeq(emitted, LAMBDA e : e.to = sid /\ e.event = event))

Events == { emitted[i].event : i \in DOMAIN emitted }

(* the last event was a room message that passed the handler's tests *)
AcceptedRoomMessage ==
    /\ last.op = "send_message"
    /\ sess[last.sid] # NoUser
    /\ strip(last.data.message) # <<>>

(* the last event was a direct message that passed the handler's tests *)
AcceptedPrivate ==
    /\ last.op = "send_private_message"
    /\ sess[last.sid] # NoUser
    /\ strip(last.data.message) # <<>>
    /\ last.data.recipient # ""

(* sockets registered under a username *)
RegisteredHandles(username) ==
    { online_users[i].socket_id :
          i \in { j \in DOMAIN online_users : online_users[j].username = username } }

Trimmed(m) == m # <<>> /\ Head(m) \notin Whitespace /\ m[Len(m)] \notin Whitespace

(* C1: an accepted room message gives exactly one new_message, carrying the *)
(* sender's username and the trimmed body, to every open transport in the  *)
(* room 'general', the sender's included, and none to any other transport. *)
TheoremC1 ==
    AcceptedRoomMessage =>
        /\ DeliveriesTo(last.sid, "new_message") = 1
        /\ Events = {"new_message"}
        /\ \A s \in Sids :
              DeliveriesTo(s, "new_message") =
                  IF conn[s] = "open" /\ "general" \in rooms[s] THEN 1 ELSE 0
        /\ \A i \in DOMAIN emitted :
              /\ emitted[i].data.username = Username(sess[last.sid])
              /\ emitted[i].data.message = strip(last.data.message)
              /\ Trimmed(emitted[i].data.message)

WitnessC1 ==
    /\ AcceptedRoomMessage
    /\ last.data.message # strip(last.data.message)
    /\ \E t \in Sids :
          /\ t # last.sid
          /\ sess[t] # sess[last.sid]
          /\ DeliveriesTo(t, "new_message") = 1
          /\ DeliveriesTo(last.sid, "new_message") = 1

(* C2: an accepted direct message from S to R gives one                    *)
(* receive_private_message to the sender's transport, and one to the       *)
(* transport registered for R exactly when R has a registry entry and      *)
(* R # S; no other transport receives anything.                            *)
TheoremC2 ==
    AcceptedPrivate =>
        LET S == Username(sess[last.sid])
            R == last.data.recipient
        IN  /\ Events = {"receive_private_message"}
            /\ DeliveriesTo(last.sid, "receive_private_message") = 1
            /\ \A s \in Sids \ {last.sid} :
                  DeliveriesTo(s, "receive_private_message") =
                      IF R # S /\ s \in RegisteredHandles(R) THEN 1 ELSE 0
            /\ (R # S /\ RegisteredHandles(R) # {}) => Len(emitted) = 2

WitnessC2 ==
    /\ AcceptedPrivate
    /\ last.data.recipient # Username(sess[last.sid])
    /\ \E s \in RegisteredHandles(last.data.recipient) :
          /\ s # last.sid
          /\ DeliveriesTo(s, "receive_private_message") = 1

(* C3: an accepted direct message whose recipient is the sender is         *)
(* delivered once, to the sending transport, with or without a registry    *)
(* entry of the sender.                                                    *)
TheoremC3 ==
    (AcceptedPrivate /\ last.data.recipient = Username(sess[last.sid])) =>
        /\ Len(emitted) = 1
        /\ emitted[1].to = last.sid
        /\ emitted[1].event = "receive_private_message"

WitnessC3 ==
    /\ AcceptedPrivate
    /\ last.data.recipient = Username(sess[last.sid])
    /\ last.sid \in RegisteredHandles(last.data.recipient)
    /\ Len(emitted) = 1

(* C4: a transport whose registry entry was replaced by a later connect of *)
(* the same user receives nothing from any handler that runs afterwards.   *)
ClaimC4 ==
    [][\A i \in DOMAIN emitted' : emitted'[i].to \notin superseded]_vars

(* the registry key of a user under the running entry point *)
KeyOf(u) == IF app = "app_simple" THEN HashId(u) ELSE ToStr(u)

SnapshotIds(d) ==
    { get_online_users_list(d)[i].user_id : i \in DOMAIN get_online_users_list(d) }

(* C5: the snapshot lists each registered identity once and nobody else:   *)
(* an authenticated connect adds the user, a disconnect or logout removes  *)
(* the user, nothing else changes who is listed, and no identity is listed *)
(* twice.                                                                  *)
TheoremC5 ==
    [][LET snapshot == get_online_users_list(online_users')
           user     == last'.data.user
       IN  /\ \A i, j \in DOMAIN snapshot :
                  snapshot[i].user_id = snapshot[j].user_id => i = j
           /\ \A i \in DOMAIN snapshot :
                  \E u \in Users :
                      snapshot[i] = [user_id |-> KeyOf(u), username |-> Username(u)]
           /\ IF last'.op = "connect" /\ user # NoUser
              THEN SnapshotIds(online_users') = SnapshotIds(online_users) \cup {KeyOf(user)}
              ELSE IF last'.op \in {"disconnect", "logout"} /\ user # NoUser
              THEN SnapshotIds(online_users') = SnapshotIds(online_users) \ {KeyOf(user)}
              ELSE SnapshotIds(online_users') = SnapshotIds(online_users)]_vars

WitnessC5 ==
    /\ last.op = "disconnect"
    /\ last.data.user # NoUser
    /\ Len(get_online_users_list(online_users)) = 1
    /\ get_online_users_list(online_users)[1].user_id # KeyOf(last.data.user)

(* C6: a room or direct message whose body is empty once stripped stores   *)
(* nothing, delivers nothing and changes nothing else.                     *)
TheoremC6 ==
    [][(/\ last'.op \in {"send_message", "send_private_message"}
        /\ strip(last'.data.message) = <<>>)
       => /\ emitted' = <<>>
          /\ UNCHANGED <<app, online_users, sess, conn, rooms, private_messages,
                         boot_rows, db_up, chat_messages>>]_vars

WitnessC6 ==
    /\ last.op = "send_private_message"
    /\ last.data.message = <<" ">>
    /\ last.data.recipient # ""
    /\ sess[last.sid] # NoUser
    /\ emitted = <<>>
    /\ private_messages # <<>>

History(a, b) == get_chat_history_from_db(private_messages, db_up, a, b, HistoryLimit)

(* C7: the history of (A, B) is the history of (B, A); it holds only       *)
(* messages between the two, those of either direction (all of them while  *)
(* the table holds no more than the limit), by ascending timestamp.        *)
TheoremC7 ==
    \A a, b \in Names :
        /\ History(a, b) = History(b, a)
        /\ \A i \in DOMAIN History(a, b) :
              /\ {History(a, b)[i].sender, History(a, b)[i].recipient} = {a, b}
              /\ i > 1 => History(a, b)[i - 1].timestamp < History(a, b)[i].timestamp
        /\ Len(private_messages) <= HistoryLimit =>
              \A k \in DOMAIN private_messages :
                  {private_messages[k].sender_username,
                   private_messages[k].recipient_username} = {a, b}
                  => \E i \in DOMAIN History(a, b) :
                         History(a, b)[i] = FormatRow(private_messages[k])

WitnessC7 ==
    /\ last.op = "get_chat_history"
    /\ Len(emitted) = 1
    /\ Len(emitted[1].data.messages) = 2
    /\ emitted[1].data.messages[1].sender = emitted[1].data.messages[2].recipient
    /\ emitted[1].data.messages[1].recipient = emitted[1].data.messages[2].sender
    /\ emitted[1].data.messages[1].sender # emitted[1].data.messages[1].recipient

(* C8: a direct message sent to a user who was offline is stored, and the  *)
(* history that user asks for after connecting, naming the sender, holds   *)
(* it.                                                                     *)
ClaimC8 ==
    /\ (AcceptedPrivate /\ Offline(last.data.recipient)) =>
           /\ private_messages # <<>>
           /\ private_messages[Len(private_messages)].timestamp \in sent_offline
           /\ private_messages[Len(private_messages)].message = strip(last.data.message)
    /\ (last.op = "get_chat_history" /\ sess[last.sid] # NoUser
            /\ last.data.recipient # "") =>
           \A k \in DOMAIN private_messages :
               (/\ private_messages[k].timestamp \in sent_offline
                /\ private_messages[k].recipient_username = Username(sess[last.sid])
                /\ private_messages[k].sender_username = last.data.recipient)
               => \E i \in DOMAIN emitted :
                      /\ emitted[i].to = last.sid
                      /\ emitted[i].event = "chat_history"
                      /\ \E j \in DOMAIN emitted[i].data.messages :
                             emitted[i].data.messages[j] = FormatRow(private_messages[k])

(* C9 as stated: a direct message to a recipient without a registry entry  *)
(* fires no receive_private_message at all.                                *)
ClaimC9 ==
    (AcceptedPrivate /\ RegisteredHandles(last.data.recipient) = {}) =>
        "receive_private_message" \notin Events

(* C9 amended: a direct message to a recipient without a registry entry is *)
(* delivered to the sending transport only, once.                          *)
TheoremC9 ==
    (AcceptedPrivate /\ RegisteredHandles(last.data.recipient) = {}) =>
        /\ \A s \in Sids \ {last.sid} : \A ev \in Events : DeliveriesTo(s, ev) = 0
        /\ Len(emitted) = 1
        /\ emitted[1].to = last.sid

WitnessC9 ==
    /\ AcceptedPrivate
    /\ RegisteredHandles(last.data.recipient) = {}
    /\ last.data.recipient # Username(sess[last.sid])
    /\ last.sid \in RegisteredHandles(Username(sess[last.sid]))
    /\ Offline(last.data.recipient)
    /\ \E s \in Open : s # last.sid
    /\ Len(emitted) = 1

(* the room the registry records for the session registered with sid *)
RegisteredIn(sid, room) ==
    \E i \in DOMAIN online_users :
        online_users[i].socket_id = sid /\ online_users[i].room = room

EntriesOf(u) == { i \in DOMAIN online_users : online_users[i].user_id = KeyOf(u) }

(* C11: after an authenticated connect the registry holds exactly one      *)
(* entry for the user; its handle is the connecting transport, which is a  *)
(* member of 'general', and (app.py) its room is 'general', whatever the   *)
(* entry was before.                                                       *)
TheoremC11 ==
    (last.op = "connect" /\ last.data.user # NoUser) =>
        /\ Cardinality(EntriesOf(last.data.user)) = 1
        /\ \A i \in EntriesOf(last.data.user) :
              /\ online_users[i].socket_id = last.sid
              /\ online_users[i].username = Username(last.data.user)
              /\ app = "app" => online_users[i].room = "general"
        /\ "general" \in rooms[last.sid]

WitnessC11 ==
    /\ last.op = "connect"
    /\ last.data.user # NoUser
    /\ app = "app"
    /\ \E s \in superseded : sess[s] = last.data.user /\ rooms[s] = {"sports"}
    /\ \E i \in EntriesOf(last.data.user) :
          online_users[i].socket_id = last.sid /\ online_users[i].room = "general"

(* C12: a disconnect of a session without identity, and a disconnect or    *)
(* logout of an identity that has no registry entry, leave the registry    *)
(* unchanged and emit no user_offline.                                     *)
ClaimC12 ==
    [][(/\ last'.op \in {"disconnect", "logout"}
        /\ \/ last'.data.user = NoUser
           \/ ~ HasKey(online_users, KeyOf(last'.data.user)))
       => /\ online_users' = online_users
          /\ \A i \in DOMAIN emitted' : emitted'[i].event # "user_offline"]_vars

(* C13: join_room of an authenticated identity that has no registry entry  *)
(* is a no-op: registry and room memberships unchanged, no room_joined.    *)
ClaimC13 ==
    [][(/\ last'.op = "join_room"
        /\ sess[last'.sid] # NoUser
        /\ ~ HasKey(online_users, ToStr(sess[last'.sid])))
       => /\ online_users' = online_users
          /\ rooms' = rooms
          /\ \A i \in DOMAIN emitted' : emitted'[i].event # "room_joined"]_vars

(* the calling transport of the last event is the registered handle of its *)
(* user in the registry d                                                  *)
CallerRegistered(d, sid) ==
    /\ sess[sid] # NoUser
    /\ HasKey(d, ToStr(sess[sid]))
    /\ Get(d, ToStr(sess[sid])).socket_id = sid

(* C14: join_room(r) of a registered session leaves the prior room, sets   *)
(* the registry room to r, makes the transport a member of r and delivers  *)
(* one room_joined {room, username} to exactly the members of r, the       *)
(* joiner included, and to no member of the prior room when it differs.    *)
ClaimC14 ==
    [][(last'.op = "join_room" /\ CallerRegistered(online_users, last'.sid)) =>
          LET sid   == last'.sid
              key   == ToStr(sess[sid])
              prior == Get(online_users, key).room
              r     == last'.data.room
          IN  /\ prior # r => prior \notin rooms'[sid]
              /\ Get(online_users', key).room = r
              /\ r \in rooms'[sid]
              /\ \A s \in Sids :
                    DeliveriesTo(s, "room_joined")' =
                        IF s \in Participants(conn', rooms', r) THEN 1 ELSE 0
              /\ \A i \in DOMAIN emitted' :
                    /\ emitted'[i].event = "room_joined"
                    /\ emitted'[i].data = [room |-> r, username |-> Username(sess[sid])]
                    /\ prior # r => prior \notin rooms'[emitted'[i].to]]_vars

(* C15: no connected transport is a member of two broadcast rooms at the   *)
(* same time.                                                              *)
ClaimC15 == \A s \in Open : Cardinality(rooms[s]) <= 1

----------------------------------------------------------------------------
(* app.py with the room names a client can send, the empty one included *)

RoomNameInputs == RoomInputs \cup {""}

InitApp ==
    /\ app = "app"
    /\ private_messages = <<>>
    /\ boot_rows = 0
    /\ InitCore

NextValidation ==
    \/ \E sid \in Sids, u \in Users \cup {NoUser} : handle_connect(sid, u)
    \/ \E sid \in Sids : handle_disconnect(sid)
    \/ \E u \in Users : logout(u)
    \/ \E sid \in Sids, data \in PrivateInputs : handle_private_message(sid, data)
    \/ \E sid \in Sids, r \in RoomNameInputs : handle_join_room(sid, [room |-> r])

SpecValidation == InitApp /\ [][NextValidation]_vars

(* C16: a direct message with an empty recipient and a join_room with an   *)
(* empty room name are rejected before any side effect: nothing stored,    *)
(* nothing delivered, registry and room memberships unchanged.             *)
ClaimC16 ==
    [][(\/ last'.op = "send_private_message" /\ last'.data.recipient = ""
        \/ last'.op = "join_room" /\ last'.data.room = "")
       => /\ emitted' = <<>>
          /\ UNCHANGED <<online_users, rooms, private_messages>>]_vars

(* C17: a connect without an authenticated identity adds no registry       *)
(* entry, joins no room, emits nothing and leaves every registry entry as  *)
(* it was.                                                                 *)
TheoremC17 ==
    [][(last'.op = "connect" /\ last'.data.user = NoUser)
       => /\ online_users' = online_users
          /\ rooms' = rooms
          /\ rooms'[last'.sid] = {}
          /\ emitted' = <<>>]_vars

WitnessC17 ==
    /\ last.op = "connect"
    /\ last.data.user = NoUser
    /\ conn[last.sid] = "open"
    /\ rooms[last.sid] = {}
    /\ online_users # <<>>
    /\ \E s \in Open : "general" \in rooms[s]
    /\ emitted = <<>>

(* C18: a room message, a direct message, a join_room and a                *)
(* get_chat_history sent over a connection without an authenticated        *)
(* identity change no registry entry, no room membership, store nothing    *)
(* and emit nothing.                                                       *)
TheoremC18 ==
    [][(/\ last'.op \in {"send_message", "send_private_message", "join_room",
                         "get_chat_history"}
        /\ sess[last'.sid] = NoUser)
       => /\ emitted' = <<>>
          /\ UNCHANGED <<online_users, rooms, private_messages, chat_messages>>]_vars

WitnessC18 ==
    /\ last.op = "join_room"
    /\ last.data.room = "sports"
    /\ sess[last.sid] = NoUser
    /\ conn[last.sid] = "open"
    /\ rooms[last.sid] = {}
    /\ \E i \in DOMAIN online_users : online_users[i].room = "sports"
    /\ emitted = <<>>

----------------------------------------------------------------------------
(* app.py with a database that becomes unavailable and available again *)

(* get_db_connection() or execute start, or stop, raising *)
storage_change ==
    /\ app = "app"
    /\ db_up' = ~ db_up
    /\ emitted' = <<>>
    /\ Handled("storage", NoSid, [user |-> NoUser])
    /\ UNCHANGED <<app, online_users, sess, conn, rooms, private_messages, boot_rows,
                   chat_messages, superseded, sent_offline>>

NextFaults == NextApp \/ storage_change

SpecFaults == InitApp /\ [][NextFaults]_vars

(* number of deliveries of event the handler of the step makes to sid *)
DeliveredNext(sid, event) ==
    Len(SelectSeq(emitted', LAMBDA e : e.to = sid /\ e.event = event))

(* C19: when the write of a direct message fails, nothing is stored but    *)
(* the handler goes on: the sender's transport gets its one                *)
(* receive_private_message and the recipient's registered transport gets   *)
(* one exactly when the recipient is registered and is not the sender, as  *)
(* when the write succeeds.                                                *)
TheoremC19 ==
    [][(/\ last'.op = "send_private_message"
        /\ PrivateAccepted(last'.sid, last'.data)
        /\ ~ db_up)
       => LET S == Username(sess[last'.sid])
              R == last'.data.recipient
          IN  /\ private_messages' = private_messages
              /\ DeliveredNext(last'.sid, "receive_private_message") = 1
              /\ \A s \in Sids \ {last'.sid} :
                    DeliveredNext(s, "receive_private_message") =
                        IF R # S /\ s \in RegisteredHandles(R) THEN 1 ELSE 0
              /\ \A i \in DOMAIN emitted' :
                    /\ emitted'[i].event = "receive_private_message"
                    /\ emitted'[i].data.message = strip(last'.data.message)
                    /\ emitted'[i].data.sender = S]_vars

WitnessC19 ==
    /\ AcceptedPrivate
    /\ ~ db_up
    /\ private_messages = <<>>
    /\ Len(emitted) = 2
    /\ emitted[1].to = last.sid
    /\ emitted[2].to # last.sid
    /\ emitted[2].to \in RegisteredHandles(last.data.recipient)

----------------------------------------------------------------------------
(* app.py with direct messages of type 'emotion' *)

NextEmotion ==
    \/ \E sid \in Sids, u \in Users \cup {NoUser} : handle_connect(sid, u)
    \/ \E sid \in Sids : handle_disconnect(sid)
    \/ \E sid \in Sids, data \in EmotionPrivateInputs : handle_private_message(sid, data)
    \/ \E sid \in Sids, r \in Recipients :
           handle_get_chat_history(sid, [recipient |-> r])

SpecEmotion == InitApp /\ [][NextEmotion]_vars

(* json.loads: the value a serialised form stands for *)
json_loads(s) == s.json

(* the last event was an accepted direct message of type 'emotion' that    *)
(* carries an emotion payload                                              *)
AcceptedEmotion ==
    /\ AcceptedPrivate
    /\ last.data.type = "emotion"
    /\ last.data.emotion_data # NoData

(* C20: the extra payload of an emotion message is stored and relayed      *)
(* verbatim: what get_chat_history returns for the message is what the     *)
(* live receive_private_message carried, and both stand for the payload    *)
(* the sender supplied.                                                    *)
ClaimC20 ==
    AcceptedEmotion =>
        LET history == History(Username(sess[last.sid]), last.data.recipient)
            stored  == history[Len(history)]
        IN  /\ history # <<>>
            /\ stored.timestamp = Len(private_messages)
            /\ \A i \in DOMAIN emitted :
                  /\ json_loads(emitted[i].data.extra_data) = last.data.emotion_data
                  /\ stored.extra_data = emitted[i].data.extra_data

(* the rows of the conversation of a and b, oldest first *)
Conversation(a, b) ==
    SelectSeq(private_messages,
              LAMBDA row : {row.sender_username, row.recipient_username} = {a, b})

(* the n most recent items of a sequence that is oldest first *)
MostRecent(rows, n) ==
    IF Len(rows) > n THEN SubSeq(rows, Len(rows) - n + 1, Len(rows)) ELSE rows

(* C21: the reply to get_chat_history holds at most 50 messages, and when  *)
(* the conversation holds more, they are the 50 most recent ones.          *)
ClaimC21 ==
    (/\ last.op = "get_chat_history"
     /\ sess[last.sid] # NoUser
     /\ last.data.recipient # "") =>
        LET conv   == Conversation(Username(sess[last.sid]), last.data.recipient)
            recent == MostRecent(conv, HistoryLimit)
        IN  /\ Len(emitted) = 1
            /\ Len(emitted[1].data.messages) <= HistoryLimit
            /\ emitted[1].data.messages = [i \in DOMAIN recent |-> FormatRow(recent[i])]

----------------------------------------------------------------------------
(* app_simple.py on a ring that earlier room messages have filled up to    *)
(* one below its capacity; their bodies differ, the i-th has i characters  *)

EarlierMessages ==
    [i \in 1..(RingCapacity - 1) |->
        [username       |-> EarlierUser,
         message        |-> [k \in 1..i |-> "x"],
         message_type   |-> "text",
         attachment_url |-> None]]

InitRing ==
    /\ app = "app_simple"
    /\ private_messages = <<>>
    /\ boot_rows = 0
    /\ online_users = <<>>
    /\ sess = [s \in Sids |-> NoUser]
    /\ conn = [s \in Sids |-> "unused"]
    /\ rooms = [s \in Sids |-> {}]
    /\ db_up = TRUE
    /\ chat_messages = EarlierMessages
    /\ superseded = {}
    /\ sent_offline = {}
    /\ emitted = <<>>
    /\ last = NoEvent
    /\ run = NoRun

SpecRing == InitRing /\ [][NextSimple]_vars

(* C22: once a send has completed the ring holds no more than its          *)
(* capacity, and it is the ring before the send with the accepted message  *)
(* added at the end and the oldest messages dropped beyond the capacity;   *)
(* no other event changes it.                                              *)
TheoremC22 ==
    [][/\ Len(chat_messages') <= RingCapacity
       /\ IF /\ last'.op = "send_message"
             /\ sess[last'.sid] # NoUser
             /\ strip(last'.data.message) # <<>>
          THEN chat_messages' =
                   MostRecent(Append(chat_messages,
                                     [username       |-> Username(sess[last'.sid]),
                                      message        |-> strip(last'.data.message),
                                      message_type   |-> last'.data.type,
                                      attachment_url |-> None]),
                              RingCapacity)
          ELSE chat_messages' = chat_messages]_vars

WitnessC22 ==
    /\ AcceptedRoomMessage
    /\ Len(chat_messages) = RingCapacity
    /\ Len(chat_messages[1].message) = 2
    /\ chat_messages[RingCapacity].username = Username(sess[last.sid])
    /\ chat_messages[RingCapacity - 1].username \in Names \ {Username(sess[last.sid])}

(* the presence event that matches a registry operation *)
PresenceEventOf(op) ==
    CASE op = "connect"    -> "user_online"
      [] op = "disconnect" -> "user_offline"
      [] op = "logout"     -> "user_offline"
      [] op = "join_room"  -> "room_joined"

(* C23: a step that changes the registry is a connect, a disconnect, a     *)
(* logout or a join_room, and within that step the matching presence       *)
(* event, naming the user, is delivered to the open transports of the room *)
(* concerned ('general', or the room joined; app_simple.py does not echo   *)
(* user_online to the connecting transport).                               *)
TheoremC23 ==
    [][online_users' # online_users =>
          /\ last'.op \in {"connect", "disconnect", "logout", "join_room"}
          /\ LET op       == last'.op
                 room     == IF op = "join_room" THEN last'.data.room ELSE "general"
                 user     == IF op = "join_room" THEN sess[last'.sid] ELSE last'.data.user
                 skipped  == IF app = "app_simple" /\ op = "connect"
                             THEN {last'.sid} ELSE {}
                 audience == Participants(conn', rooms', room) \ skipped
             IN  \A s \in audience :
                     \E i \in DOMAIN emitted' :
                         /\ emitted'[i].to = s
                         /\ emitted'[i].event = PresenceEventOf(op)
                         /\ emitted'[i].data.username = Username(user)]_vars

WitnessC23 ==
    /\ app = "app_simple"
    /\ last.op = "logout"
    /\ ~ HasKey(online_users, HashId(last.data.user))
    /\ Cardinality(Participants(conn, rooms, "general")) = 2
    /\ Len(emitted) = 2
    /\ emitted[1].event = "user_offline"

(* a room exists: 'general' always; any other room once a join_room made   *)
(* a connected transport a member of it (the transport layer creates a     *)
(* room with its first member)                                             *)
RoomExists(room) == room = "general" \/ Participants(conn, rooms, room) # {}

(* C24: the room recorded in every registry entry is a room that exists.   *)
TheoremC24 ==
    app = "app" => \A i \in DOMAIN online_users : RoomExists(online_users[i].room)

WitnessC24 ==
    /\ app = "app"
    /\ last.op = "join_room"
    /\ \E i \in DOMAIN online_users :
          /\ online_users[i].room = "sports"
          /\ Participants(conn, rooms, "sports") = {online_users[i].socket_id}

(* C25: an operation that fails (join_room of an identity without registry *)
(* entry, a direct message whose write fails) changes no registry entry,   *)
(* no connection and no room membership of any other transport: whom a     *)
(* username resolves to, and which other transports a room has, stay as    *)
(* they were.                                                              *)
TheoremC25 ==
    [][(\/ /\ last'.op = "join_room"
           /\ sess[last'.sid] # NoUser
           /\ ~ HasKey(online_users, ToStr(sess[last'.sid]))
        \/ /\ last'.op = "send_private_message"
           /\ PrivateAccepted(last'.sid, last'.data)
           /\ ~ db_up)
       => /\ online_users' = online_users
          /\ conn' = conn
          /\ \A s \in Sids \ {last'.sid} : rooms'[s] = rooms[s]
          /\ \A name \in Names :
                get_user_socket(online_users', name) = get_user_socket(online_users, name)
          /\ \A room \in RoomInputs :
                Participants(conn', rooms', room) \ {last'.sid}
                    = Participants(conn, rooms, room) \ {last'.sid}]_vars

WitnessC25 ==
    /\ last.op = "join_room"
    /\ last.data.room = "sports"
    /\ sess[last.sid] # NoUser
    /\ ~ HasKey(online_users, ToStr(sess[last.sid]))
    /\ rooms[last.sid] = {"general", "sports"}
    /\ \E i \in DOMAIN online_users :
          /\ online_users[i].socket_id # last.sid
          /\ online_users[i].room = "general"
          /\ rooms[online_users[i].socket_id] = {"general"}

----------------------------------------------------------------------------
(* Handlers running concurrently.                                          *)
(* app_simple.py creates SocketIO with async_mode='threading' and app.py   *)
(* falls back to it when neither gevent nor eventlet is installed: every   *)
(* event is handled in a thread of its own, and a thread switch can fall   *)
(* between any two statements of a handler. Neither file takes a lock.     *)
(* One dict or list operation (a store, a del, an append, one step of an   *)
(* iterator) is atomic under the interpreter lock. The actions below cut   *)
(* a handler only where the claims need it, each piece a run of            *)
(* consecutive statements: every behaviour of this model is a behaviour of *)
(* the threads.                                                            *)

(* a deleted key's place in the entries array of a dict *)
Hole == ""

(* d[k] = v on the entries array: a new key takes the next place, an       *)
(* existing key keeps its place. The array is not rebuilt: it is compacted *)
(* only when the sixth place of a fresh dict is needed.                    *)
SlotSet(slots, k) ==
    IF \E i \in DOMAIN slots : slots[i] = k THEN slots ELSE Append(slots, k)

(* del d[k] on the entries array *)
SlotDel(slots, k) ==
    [i \in DOMAIN slots |-> IF slots[i] = k THEN Hole ELSE slots[i]]

(* the place the iterator of d.items() moves to from pos, 0 at the end *)
NextSlot(slots, pos) ==
    LET rest == { i \in DOMAIN slots : i > pos /\ slots[i] # Hole }
    IN  IF rest = {} THEN 0 ELSE CHOOSE i \in rest : \A j \in rest : i <= j

(* the content d of the registry is one more instant of every snapshot     *)
(* being taken                                                             *)
Observe(handler, d) ==
    [s \in Sids |->
        IF handler[s].pc = "iterating"
        THEN [handler[s] EXCEPT !.instants = @ \cup {get_online_users_list(d)}]
        ELSE handler[s]]

(* on_connect up to the creation of the iterator of                        *)
(* get_online_users_list()                                                 *)
thread_on_connect(sid, u) ==
    /\ app = "app_simple"
    /\ FreshSid(sid)
    /\ sess' = [sess EXCEPT ![sid] = u]
    /\ IF u # NoUser
       THEN /\ conn' = [conn EXCEPT ![sid] = "open"]
            /\ online_users' = DictSet(online_users, HashId(u),
                                       [user_id   |-> HashId(u),
                                        username  |-> Username(u),
                                        socket_id |-> sid])
            /\ rooms' = [rooms EXCEPT ![sid] = @ \cup {"general"}]
            /\ superseded' =
                   IF HasKey(online_users, HashId(u))
                   THEN superseded \cup {Get(online_users, HashId(u)).socket_id}
                   ELSE superseded
            /\ emitted' =
                   Emit("user_online",
                        [user_id |-> HashId(u), username |-> Username(u)],
                        Participants(conn', rooms', "general") \ {sid})
                   \o EmitSelf(sid, "recent_messages",
                               get_recent_messages(chat_messages, RecentLimit))
            /\ run' = [run EXCEPT
                   !.slots = SlotSet(@, HashId(u)),
                   !.handler =
                       [Observe(@, online_users') EXCEPT ![sid] =
                           [Idle EXCEPT
                               !.pc = "iterating",
                               !.used = Len(online_users'),
                               !.instants =
                                   {get_online_users_list(online_users')}]]]
       ELSE /\ conn' = [conn EXCEPT ![sid] = "closed"]
            /\ emitted' = <<>>
            /\ UNCHANGED <<online_users, rooms, superseded, run>>
    /\ last' = [op |-> "connect", sid |-> sid, data |-> [user |-> u]]
    /\ UNCHANGED <<app, private_messages, boot_rows, db_up, chat_messages, sent_offline>>

(* one step of the list comprehension of get_online_users_list(): the      *)
(* iterator raises RuntimeError (dictionary changed size during iteration) *)
(* when the dict no longer has the size it had when the iterator was made, *)
(* and the handler ends there                                              *)
thread_snapshot_next(sid) ==
    LET h    == run.handler[sid]
        slot == NextSlot(run.slots, h.pos)
    IN  /\ h.pc = "iterating"
        /\ run' = [run EXCEPT !.handler[sid] =
               IF Len(online_users) # h.used
               THEN [h EXCEPT !.pc = "raised"]
               ELSE IF slot # 0
               THEN [h EXCEPT
                        !.pos = slot,
                        !.items = Append(@,
                            [user_id  |-> run.slots[slot],
                             username |-> Get(online_users, run.slots[slot]).username])]
               ELSE [h EXCEPT !.pc = "emit"]]
        /\ emitted' = <<>>
        /\ last' = [op |-> "snapshot", sid |-> sid, data |-> [user |-> sess[sid]]]
        /\ UNCHANGED <<app, online_users, sess, conn, rooms, private_messages,
                       boot_rows, db_up, chat_messages, superseded, sent_offline>>

(* emit('online_users_update', ...) with the list the iteration built *)
thread_snapshot_emit(sid) ==
    /\ run.handler[sid].pc = "emit"
    /\ emitted' = Emit("online_users_update", run.handler[sid].items,
                       {sid} \cap Open)
    /\ run' = [run EXCEPT !.handler[sid] = Idle]
    /\ last' = [op |-> "online_users_update", sid |-> sid,
                data |-> [user |-> sess[sid]]]
    /\ UNCHANGED <<app, online_users, sess, conn, rooms, private_messages,
                   boot_rows, db_up, chat_messages, superseded, sent_offline>>

(* on_disconnect, of a transport with no other handler running *)
thread_on_disconnect(sid) ==
    /\ app = "app_simple"
    /\ conn[sid] = "open"
    /\ run.handler[sid].pc \in {"idle", "raised"}
    /\ conn' = [conn EXCEPT ![sid] = "closed"]
    /\ rooms' = [rooms EXCEPT ![sid] = {}]
    /\ superseded' = superseded \ {sid}
    /\ IF sess[sid] # NoUser
       THEN /\ online_users' = DictDel(online_users, HashId(sess[sid]))
            /\ emitted' = EmitRoom(conn', rooms, "user_offline",
                                   [user_id  |-> HashId(sess[sid]),
                                    username |-> Username(sess[sid])],
                                   "general")
            /\ run' = [run EXCEPT
                   !.slots = SlotDel(@, HashId(sess[sid])),
                   !.handler = [Observe(@, online_users') EXCEPT ![sid] = Idle]]
       ELSE /\ emitted' = <<>>
            /\ run' = [run EXCEPT !.handler[sid] = Idle]
            /\ UNCHANGED online_users
    /\ last' = [op |-> "disconnect", sid |-> sid, data |-> [user |-> sess[sid]]]
    /\ UNCHANGED <<app, sess, private_messages, boot_rows, db_up, chat_messages,
                   sent_offline>>

(* the transports' inboxes after a delivery of msg to each of targets *)
Received(inbox, msg, targets) ==
    [s \in Sids |-> IF s \in targets THEN Append(inbox[s], msg) ELSE inbox[s]]

(* mutant: the message is emitted first, save_message is called after     *)
thread_message_save_emits_first(sid, data) ==
    /\ app = "app_simple"
    /\ conn[sid] = "open"
    /\ run.handler[sid].pc \in {"idle", "raised"}
    /\ IF sess[sid] # NoUser /\ strip(data.message) # <<>>
       THEN LET msg == [username |-> Username(sess[sid]),
                        message  |-> strip(data.message),
                        type     |-> data.type]
            IN  /\ SentSinceStart(chat_messages) < MaxChat
                /\ emitted' = Emit("new_message", msg,
                                   MessageTargets(conn, rooms, sid))
                /\ run' = [run EXCEPT
                       !.inbox = Received(@, msg, MessageTargets(conn, rooms, sid)),
                       !.handler[sid] = [Idle EXCEPT !.pc = "send", !.msg = msg]]
       ELSE /\ emitted' = <<>>
            /\ UNCHANGED run
    /\ last' = [op |-> "send_message", sid |-> sid, data |-> data]
    /\ UNCHANGED <<app, online_users, sess, conn, rooms, private_messages,
                   boot_rows, db_up, chat_messages, superseded, sent_offline>>

(* handle_message up to the return of save_message *)
thread_message_save(sid, data) ==
    /\ app = "app_simple"
    /\ conn[sid] = "open"
    /\ run.handler[sid].pc \in {"idle", "raised"}
    /\ IF sess[sid] # NoUser /\ strip(data.message) # <<>>
       THEN LET username == Username(sess[sid])
                message  == strip(data.message)
            IN  /\ SentSinceStart(chat_messages) < MaxChat
                /\ chat_messages' =
                       save_message(chat_messages, username, message, data.type)
                /\ run' = [run EXCEPT !.handler[sid] =
                       [Idle EXCEPT !.pc = "send",
                                    !.saved = "done",
                                    !.msg = [username |-> username,
                                             message  |-> message,
                                             type     |-> data.type]]]
       ELSE UNCHANGED <<chat_messages, run>>
    /\ emitted' = <<>>
    /\ last' = [op |-> "send_message", sid |-> sid, data |-> data]
    /\ UNCHANGED <<app, online_users, sess, conn, rooms, private_messages,
                   boot_rows, db_up, superseded, sent_offline>>

(* the rest of handle_message: emit('new_message', ..., room='general'),   *)
(* one delivery to every member, not cut by another handler's emit         *)
thread_message_emit(sid) ==
    /\ run.handler[sid].pc = "send"
    /\ emitted' = Emit("new_message", run.handler[sid].msg,
                       MessageTargets(conn, rooms, sid))
    /\ run' = [run EXCEPT
           !.inbox = Received(@, run.handler[sid].msg,
                              MessageTargets(conn, rooms, sid)),
           !.handler[sid] = [Idle EXCEPT !.saved = run.handler[sid].saved]]
    /\ last' = [op |-> "new_message", sid |-> sid, data |-> [user |-> sess[sid]]]
    /\ UNCHANGED <<app, online_users, sess, conn, rooms, private_messages,
                   boot_rows, db_up, chat_messages, superseded, sent_offline>>

(* handle_private_message up to the return of save_private_message_to_db,  *)
(* which catches the exception of a failed insert and returns              *)
thread_private_save(sid, data) ==
    /\ app = "app"
    /\ conn[sid] = "open"
    /\ run.handler[sid].pc = "idle"
    /\ IF PrivateAccepted(sid, data)
       THEN LET message  == strip(data.message)
                username == Username(sess[sid])
            IN  /\ Len(private_messages) < boot_rows + MaxStore
                /\ private_messages' =
                       save_private_message_to_db(private_messages, db_up, sess[sid],
                                                  username, data.recipient, message,
                                                  data.type, data)
                /\ sent_offline' =
                       IF Offline(data.recipient) /\ private_messages' # private_messages
                       THEN sent_offline \cup {Len(private_messages')}
                       ELSE sent_offline
                /\ run' = [run EXCEPT !.handler[sid] =
                       [Idle EXCEPT
                           !.pc = "deliver",
                           !.saved = IF db_up THEN "done" ELSE "failed",
                           !.msg = message_data(sess[sid], username, data.recipient,
                                                message, data.type, data)]]
       ELSE UNCHANGED <<private_messages, sent_offline, run>>
    /\ emitted' = <<>>
    /\ last' = [op |-> "send_private_message", sid |-> sid, data |-> data]
    /\ UNCHANGED <<app, online_users, sess, conn, rooms, boot_rows, db_up,
                   chat_messages, superseded>>

(* the rest of handle_private_message: the two emits *)
thread_private_emit(sid) ==
    /\ run.handler[sid].pc = "deliver"
    /\ emitted' = EmitSelf(sid, "receive_private_message", run.handler[sid].msg)
                    \o SendToRecipient(online_users, run.handler[sid].msg.sender,
                                       run.handler[sid].msg.recipient,
                                       run.handler[sid].msg)
    /\ run' = [run EXCEPT !.handler[sid] =
           [Idle EXCEPT !.saved = run.handler[sid].saved,
                        !.after = run.handler[sid].after]]
    /\ last' = [op |-> "receive_private_message", sid |-> sid,
                data |-> [user |-> sess[sid]]]
    /\ UNCHANGED <<app, online_users, sess, conn, rooms, private_messages,
                   boot_rows, db_up, chat_messages, superseded, sent_offline>>

(* handle_connect of app.py up to the return of join_room('general') *)
thread_handle_connect(sid, u) ==
    /\ app = "app"
    /\ FreshSid(sid)
    /\ conn' = [conn EXCEPT ![sid] = "open"]
    /\ sess' = [sess EXCEPT ![sid] = u]
    /\ IF u # NoUser
       THEN /\ online_users' = DictSet(online_users, ToStr(u),
                                       [user_id   |-> ToStr(u),
                                        username  |-> Username(u),
                                        room      |-> "general",
                                        socket_id |-> sid])
            /\ rooms' = [rooms EXCEPT ![sid] = @ \cup {"general"}]
            /\ superseded' =
                   IF HasKey(online_users, ToStr(u))
                   THEN superseded \cup {Get(online_users, ToStr(u)).socket_id}
                   ELSE superseded
            /\ run' = [run EXCEPT
                   !.slots = SlotSet(@, ToStr(u)),
                   !.handler[sid] =
                       [Idle EXCEPT
                           !.pc = "notify_online",
                           !.after = get_online_users_list(online_users')]]
       ELSE UNCHANGED <<online_users, rooms, superseded, run>>
    /\ emitted' = <<>>
    /\ last' = [op |-> "connect", sid |-> sid, data |-> [user |-> u]]
    /\ UNCHANGED <<app, private_messages, boot_rows, db_up, chat_messages, sent_offline>>

(* the rest of handle_connect: emit('user_online', ...) with the list      *)
(* get_online_users_list() builds now, taken here in one piece             *)
thread_connect_notify(sid) ==
    /\ run.handler[sid].pc = "notify_online"
    /\ emitted' = EmitRoom(conn, rooms, "user_online",
                           [user_id      |-> ToStr(sess[sid]),
                            username     |-> Username(sess[sid]),
                            online_users |-> get_online_users_list(online_users)],
                           "general")
    /\ run' = [run EXCEPT !.handler[sid] =
           [Idle EXCEPT !.after = run.handler[sid].after]]
    /\ last' = [op |-> "user_online", sid |-> sid, data |-> [user |-> sess[sid]]]
    /\ UNCHANGED <<app, online_users, sess, conn, rooms, private_messages,
                   boot_rows, db_up, chat_messages, superseded, sent_offline>>

(* handle_disconnect of app.py up to the del of the entry, of a transport  *)
(* with no other handler running                                           *)
thread_handle_disconnect(sid) ==
    /\ app = "app"
    /\ conn[sid] = "open"
    /\ run.handler[sid].pc = "idle"
    /\ conn' = [conn EXCEPT ![sid] = "closed"]
    /\ rooms' = [rooms EXCEPT ![sid] = {}]
    /\ superseded' = superseded \ {sid}
    /\ IF sess[sid] # NoUser
       THEN /\ online_users' = DictDel(online_users, ToStr(sess[sid]))
            /\ run' = [run EXCEPT
                   !.slots = SlotDel(@, ToStr(sess[sid])),
                   !.handler[sid] =
                       [Idle EXCEPT
                           !.pc = "notify_offline",
                           !.after = get_online_users_list(online_users')]]
       ELSE UNCHANGED <<online_users, run>>
    /\ emitted' = <<>>
    /\ last' = [op |-> "disconnect", sid |-> sid, data |-> [user |-> sess[sid]]]
    /\ UNCHANGED <<app, sess, private_messages, boot_rows, db_up, chat_messages,
                   sent_offline>>

(* the rest of handle_disconnect: emit('user_offline', ...) *)
thread_disconnect_notify(sid) ==
    /\ run.handler[sid].pc = "notify_offline"
    /\ emitted' = EmitRoom(conn, rooms, "user_offline",
                           [user_id      |-> ToStr(sess[sid]),
                            username     |-> Username(sess[sid]),
                            online_users |-> get_online_users_list(online_users)],
                           "general")
    /\ run' = [run EXCEPT !.handler[sid] =
           [Idle EXCEPT !.after = run.handler[sid].after]]
    /\ last' = [op |-> "user_offline", sid |-> sid, data |-> [user |-> sess[sid]]]
    /\ UNCHANGED <<app, online_users, sess, conn, rooms, private_messages,
                   boot_rows, db_up, chat_messages, superseded, sent_offline>>

NextThreads ==
    \/ \E sid \in Sids, u \in Users \cup {NoUser} : thread_on_connect(sid, u)
    \/ \E sid \in Sids : thread_snapshot_next(sid)
    \/ \E sid \in Sids : thread_snapshot_emit(sid)
    \/ \E sid \in Sids : thread_on_disconnect(sid)
    \/ \E sid \in Sids, data \in MessageInputs : thread_message_save(sid, data)
    \/ \E sid \in Sids : thread_message_emit(sid)
    \/ \E sid \in Sids, u \in Users \cup {NoUser} : thread_handle_connect(sid, u)
    \/ \E sid \in Sids : thread_connect_notify(sid)
    \/ \E sid \in Sids : thread_handle_disconnect(sid)
    \/ \E sid \in Sids : thread_disconnect_notify(sid)
    \/ \E sid \in Sids, data \in PrivateInputs : thread_private_save(sid, data)
    \/ \E sid \in Sids : thread_private_emit(sid)
    \/ storage_change

SpecThreads == Init /\ [][NextThreads]_vars

(* C26: while connect and disconnect handlers of different users run in    *)
(* parallel, every snapshot of the registry completes, and the list it     *)
(* builds is the content the registry had at one instant of the iteration  *)
ClaimC26 ==
    (\A s, t \in Sids : s # t /\ sess[s] # NoUser => sess[s] # sess[t])
    => \A s \in Sids :
          /\ run.handler[s].pc # "raised"
          /\ run.handler[s].pc = "emit"
             => run.handler[s].items \in run.handler[s].instants

(* the new_message payload of an item of the recent-message history *)
Payload(item) ==
    [username |-> item.username, message |-> item.message, type |-> item.message_type]

(* C27: a member of the room that has received every room message of the   *)
(* history has received them in the order in which the history records     *)
(* them (and so every such member in the same order)                       *)
ClaimC27 ==
    app = "app_simple"
    => \A s \in Sids :
          Len(run.inbox[s]) = Len(chat_messages)
          => run.inbox[s] = [i \in DOMAIN chat_messages |-> Payload(chat_messages[i])]

(* C28: the snapshot of a user_online or user_offline event of app.py is   *)
(* the content the registry had right after the handler's own insert or    *)
(* del, while handlers of other users run in parallel                      *)
ClaimC28 ==
    /\ app = "app"
    /\ last.op \in {"user_online", "user_offline"}
    /\ \A s, t \in Sids : s # t /\ sess[s] # NoUser => sess[s] # sess[t]
    => \A i \in DOMAIN emitted :
          emitted[i].data.online_users = run.handler[last.sid].after

(* the row of the private-message table a delivered payload was saved as *)
SavedAs(row, payload) ==
    /\ row.sender_username = payload.sender
    /\ row.recipient_username = payload.recipient
    /\ row.message = payload.message
    /\ row.message_type = payload.type

(* C29: when a handler delivers a new_message or receive_private_message   *)
(* event, its call of save_message or save_private_message_to_db has       *)
(* returned: the message is in the history, or the insert has failed       *)
TheoremC29 ==
    \A i \in DOMAIN emitted :
        /\ emitted[i].event = "new_message"
           => /\ run.handler[last.sid].saved = "done"
              /\ \E j \in DOMAIN chat_messages :
                    Payload(chat_messages[j]) = emitted[i].data
        /\ emitted[i].event = "receive_private_message"
           => \/ run.handler[last.sid].saved = "failed"
              \/ /\ run.handler[last.sid].saved = "done"
                 /\ \E j \in DOMAIN private_messages :
                       SavedAs(private_messages[j], emitted[i].data)

WitnessC29 ==
    /\ last.op = "new_message"
    /\ \E i \in DOMAIN emitted :
          /\ emitted[i].event = "new_message"
          /\ emitted[i].to # last.sid
          /\ Payload(chat_messages[Len(chat_messages)]) # emitted[i].data

----------------------------------------------------------------------------
(* The recent-message query of the two programs *)

(* the columns of the table messages that init_database creates *)
MessagesColumns ==
    {"id", "user_id", "username", "room", "message", "message_type",
     "extra_data", "timestamp"}

(* the columns get_recent_messages of app.py selects *)
SelectedColumns ==
    {"username", "message", "message_type", "attachment_url", "timestamp"}

(* the table messages: init_database creates it empty, and no handler of   *)
(* app.py inserts into it (save_message_to_db is never called)             *)
messages == <<>>

(* the statement failed: the call ends with the driver's exception *)
Raised == [raised |-> TRUE]

(* reversed(...) *)
Reverse(rows) == [i \in DOMAIN rows |-> rows[Len(rows) + 1 - i]]

(* get_recent_messages(room, limit) of app.py: the rows of the room,       *)
(* ORDER BY timestamp DESC LIMIT ?, then reversed. The statement is        *)
(* refused when it names a column the table does not have; nothing in the  *)
(* function catches that.                                                  *)
app_get_recent_messages(table, room, limit) ==
    IF SelectedColumns \subseteq MessagesColumns
    THEN Reverse(Limit(Reverse(OrderByTimestamp(
             SelectSeq(table, LAMBDA row : row.room = room))), limit))
    ELSE Raised

(* the limits a caller passes: the default and a small one *)
LimitInputs == {1, RecentLimit}

(* a call of get_recent_messages(room, limit) of app.py *)
recent_messages_query(room, limit) ==
    /\ app = "app"
    /\ emitted' = <<>>
    /\ Handled("get_recent_messages", NoSid,
               [room   |-> room,
                limit  |-> limit,
                result |-> app_get_recent_messages(messages, room, limit)])
    /\ UNCHANGED <<app, online_users, sess, conn, rooms, private_messages,
                   boot_rows, db_up, chat_messages, superseded, sent_offline>>

(* either program: app_simple.py on the ring of InitRing, app.py on its    *)
(* empty table                                                             *)
InitRecent ==
    /\ app \in {"app", "app_simple"}
    /\ private_messages = <<>>
    /\ boot_rows = 0
    /\ online_users = <<>>
    /\ sess = [s \in Sids |-> NoUser]
    /\ conn = [s \in Sids |-> "unused"]
    /\ rooms = [s \in Sids |-> {}]
    /\ db_up = TRUE
    /\ chat_messages = IF app = "app_simple" THEN EarlierMessages ELSE <<>>
    /\ superseded = {}
    /\ sent_offline = {}
    /\ emitted = <<>>
    /\ last = NoEvent
    /\ run = NoRun

NextRecent ==
    \/ NextSimple
    \/ \E room \in RoomInputs, limit \in LimitInputs : recent_messages_query(room, limit)

SpecRecent == InitRecent /\ [][NextRecent]_vars

(* the deliveries of recent_messages the last handler made *)
Replays == { i \in DOMAIN emitted : emitted[i].event = "recent_messages" }

(* an authenticated connect of app_simple.py replays the RecentLimit most  *)
(* recent items of chat_messages, oldest first, to the connecting          *)
(* transport and to no other                                               *)
RecentReplay ==
    (app = "app_simple" /\ last.op = "connect" /\ last.data.user # NoUser)
    => /\ Cardinality(Replays) = 1
       /\ \A i \in Replays :
             /\ emitted[i].to = last.sid
             /\ emitted[i].data = MostRecent(chat_messages, RecentLimit)

(* C30: a call of the recent-message query returns the min(limit, n) most  *)
(* recent messages of the room, oldest first, and an authenticated connect *)
(* of the in-memory program replays that list to the connecting transport  *)
(* only                                                                    *)
ClaimC30 ==
    /\ last.op = "get_recent_messages"
       => last.data.result =
              MostRecent(SelectSeq(messages, LAMBDA row : row.room = last.data.room),
                         last.data.limit)
    /\ RecentReplay

----------------------------------------------------------------------------
(* C31: a get_chat_history handled while the storage is unavailable        *)
(* answers the caller with one chat_history event whose list is empty, and *)
(* changes nothing else                                                    *)
TheoremC31 ==
    [][(/\ last'.op = "get_chat_history"
        /\ ~ db_up
        /\ sess[last'.sid] # NoUser
        /\ last'.data.recipient # "")
       => /\ emitted' = <<[to    |-> last'.sid,
                           event |-> "chat_history",
                           data  |-> [messages |-> <<>>]]>>
          /\ UNCHANGED <<app, online_users, sess, conn, rooms, private_messages,
                         boot_rows, db_up, chat_messages, superseded, sent_offline>>
      ]_vars

WitnessC31 ==
    /\ last.op = "get_chat_history"
    /\ ~ db_up
    /\ sess[last.sid] # NoUser
    /\ Conversation(Username(sess[last.sid]), last.data.recipient) # <<>>
    /\ Len(emitted) = 1
    /\ emitted[1].data.messages = <<>>

(* every user with a connected authenticated transport has a registry      *)
(* entry                                                                   *)
ConnectedAreRegistered ==
    \A s \in Open : sess[s] # NoUser => HasKey(online_users, ToStr(sess[s]))

(* C32: a user with a connected authenticated transport keeps a registry   *)
(* entry as long as they do not log out: no step other than a logout takes *)
(* the program from a state where every connected user is registered to a  *)
(* state where one is not                                                  *)
ClaimC32 ==
    [][(app = "app" /\ last'.op # "logout" /\ ConnectedAreRegistered)
       => ConnectedAreRegistered']_vars

(* C33: the socket_id of every registry entry is the sid of a transport    *)
(* that is connected                                                       *)
TheoremC33 ==
    \A i \in DOMAIN online_users : conn[online_users[i].socket_id] = "open"

WitnessC33 ==
    /\ last.op = "disconnect"
    /\ last.data.user # NoUser
    /\ conn[last.sid] = "closed"
    /\ online_users # <<>>
    /\ \A i \in DOMAIN online_users : online_users[i].username # Username(last.data.user)

(* C34: the room recorded in a registry entry is the one room that the     *)
(* transport of the entry is a member of                                   *)
ClaimC34 ==
    app = "app"
    => \A i \in DOMAIN online_users :
          rooms[online_users[i].socket_id] = {online_users[i].room}

(* C35: a send_private_message from a transport whose user has no registry *)
(* entry stores nothing and delivers nothing                               *)
ClaimC35 ==
    [][(/\ last'.op = "send_private_message"
        /\ sess[last'.sid] # NoUser
        /\ ~ HasKey(online_users, ToStr(sess[last'.sid])))
       => /\ private_messages' = private_messages
          /\ emitted' = <<>>]_vars

----------------------------------------------------------------------------
(* app.py with direct messages that may also be addressed to a registered  *)
(* user who is not connected                                               *)

(* the username of a user who has an account and no transport *)
ThirdUser == "carol"

DirectInputs ==
    { [message |-> <<" ", "h", "i", " ">>, recipient |-> r, type |-> "text",
       emotion_data |-> NoData] : r \in (Recipients \ {""}) \cup {ThirdUser} }

NextConfidential ==
    \/ \E sid \in Sids, u \in Users \cup {NoUser} : handle_connect(sid, u)
    \/ \E sid \in Sids : handle_disconnect(sid)
    \/ \E u \in Users : logout(u)
    \/ \E sid \in Sids, data \in DirectInputs : handle_private_message(sid, data)
    \/ \E sid \in Sids, r \in RoomInputs : handle_join_room(sid, [room |-> r])

SpecConfidential == InitApp /\ [][NextConfidential]_vars

(* C36: a receive_private_message event reaches only transports whose      *)
(* session user is the sender or the recipient of the message              *)
TheoremC36 ==
    \A i \in DOMAIN emitted :
        emitted[i].event = "receive_private_message"
        => /\ sess[emitted[i].to] # NoUser
           /\ Username(sess[emitted[i].to])
                  \in {emitted[i].data.sender, emitted[i].data.recipient}

WitnessC36 ==
    /\ last.op = "send_private_message"
    /\ last.data.recipient = ThirdUser
    /\ Len(emitted) = 1
    /\ emitted[1].to = last.sid
    /\ \E s \in Open : s # last.sid /\ sess[s] \notin {NoUser, sess[last.sid]}
    /\ \E i \in DOMAIN online_users : online_users[i].socket_id # last.sid

----------------------------------------------------------------------------
(* either program, app.py with a storage that fails and recovers *)
NextFrame == NextFaults \/ NextSimple

SpecFrame == Init /\ [][NextFrame]_vars

(* C37: a send_private_message, a get_chat_history or a send_message,      *)
(* accepted, rejected or handled while the storage is unavailable, leaves  *)
(* the registry and the room memberships of every transport as they were   *)
TheoremC37 ==
    [][last'.op \in {"send_private_message", "get_chat_history", "send_message"}
       => UNCHANGED <<online_users, rooms>>]_vars

WitnessC37 ==
    /\ last.op = "send_private_message"
    /\ ~ db_up
    /\ PrivateAccepted(last.sid, last.data)
    /\ emitted # <<>>
    /\ ~ HasKey(online_users, ToStr(sess[last.sid]))
    /\ \E i \in DOMAIN online_users : online_users[i].room = "sports"

====
